---- MODULE Spec2Model ----
(***************************************************************************)
(* Verification model of two parts of zokrates_core:                       *)
(*                                                                         *)
(*   optimizer/duplicate.rs     DuplicateOptimizer: canonicalize every IR  *)
(*                              statement, then keep a statement only if   *)
(*                              its 64-bit hash was not seen before.       *)
(*   static_analysis/mod.rs     TypedProgram::analyse, the ordered pass    *)
(*                              pipeline, and Analyse for ir::Prog.        *)
(*                                                                         *)
(* SpecDup drives the optimizer (twice in a row, to observe idempotence);  *)
(* SpecAnalyse drives the two analyse entry points.                        *)
(***************************************************************************)
EXTENDS Integers, Sequences, FiniteSets, TLC

VARIABLES
    \* ---- optimizer/duplicate.rs ----
    prog,        \* the Prog given to the first DuplicateOptimizer::optimize
    input,       \* the Prog given to the current call of optimize
    run,         \* 1: first call of optimize, 2: optimize applied to its own output
    pc,          \* position inside optimize: "idle", "start", "fold", "done"
    canon,       \* statements after the canonicalizing flat_map (fold_module, l.41-48)
    idx,         \* next statement of canon that ir::folder::fold_module hands to fold_statement
    out,         \* statements collected so far by the folding flat_map
    origin,      \* for each statement of out, its position in canon
    seen,        \* DuplicateOptimizer.seen
    result,      \* the Prog returned by the current call, or NoProg
    first,       \* the Prog returned by the first call, or NoProg
    \* ---- static_analysis/mod.rs ----
    apc,         \* position inside TypedProgram::analyse
    isolate_branches, \* config.isolate_branches
    source,      \* the TypedProgram analyse was called on
    r,           \* the local `r`: the typed program as transformed so far
    zir,         \* the local `zir`
    abi,         \* the local `abi`
    ret,         \* what TypedProgram::analyse returned, or NoResult
    log,         \* the log::debug! messages written so far
    ipc,         \* position inside <Prog as Analyse>::analyse
    iprog,       \* the ir::Prog that analyse was called on
    iret         \* what <Prog as Analyse>::analyse returned, or NoResult

dupVars == <<prog, input, run, pc, canon, idx, out, origin, seen, result, first>>
anaVars == <<apc, isolate_branches, source, r, zir, abi, ret, log>>
irVars  == <<ipc, iprog, iret>>
vars    == <<dupVars, anaVars, irVars>>

----------------------------------------------------------------------------
(* Bounds of the model *)

\* longest statement list of an input program
MaxStatements == 3
\* width of the hash in bits. The program's Hash is u64 over an unbounded
\* set of statements; the model has a handful of statements and narrows the
\* hash with them, so that, as in the program, it is not injective.
HashBits == 3
\* number of distinct typed programs given to TypedProgram::analyse
MaxSources == 2
\* number of distinct error values a failing pass may report
MaxErrors == 2

----------------------------------------------------------------------------
(* IR data model (crate::ir): variables, linear and quadratic combinations, *)
(* statements, programs.                                                   *)

\* FlatVariable::one() has index 0
One == 0

\* LinComb::summand(c, v): a single term <<variable, coefficient>>
summand(c, v) == << <<v, c>> >>

\* LinComb::zero(): the empty combination
zero == << >>

\* LinComb::one()
one == summand(1, One)

\* Statement::constraint(quad, lin)
constraint(left, right, lin) ==
    [kind |-> "constraint", left |-> left, right |-> right, lin |-> lin]

\* a directive: witness hint with input combinations and output variables
directive(inputs, outputs) ==
    [kind |-> "directive", inputs |-> inputs, outputs |-> outputs]

\* a statement shape that canonicalization expands into its parts
block(parts) == [kind |-> "block", parts |-> parts]

NoProg == [none |-> TRUE]

Prog(statements, arguments, returns) ==
    [statements |-> statements, arguments |-> arguments, returns |-> returns]

----------------------------------------------------------------------------
(* Helpers on sequences *)

\* Iterator::flat_map(f).collect() over a Vec: the concatenation of f's results
RECURSIVE FlatMap(_, _)
FlatMap(f(_), s) ==
    IF s = << >> THEN << >> ELSE f(Head(s)) \o FlatMap(f, Tail(s))

\* Iterator::map(f).collect() over a Vec
MapSeq(f(_), s) == [i \in 1..Len(s) |-> f(s[i])]

SeqToSet(s) == {s[i] : i \in 1..Len(s)}

----------------------------------------------------------------------------
(* Canonicalizer (crate::optimizer::canonicalizer): terms of a linear       *)
(* combination in ascending variable order; the two operands of a          *)
(* quadratic combination in a fixed order; zero or more statements out for *)
(* one statement in.                                                       *)

\* insert term t into a list sorted by variable index
RECURSIVE InsertTerm(_, _)
InsertTerm(t, l) ==
    IF l = << >> THEN <<t>>
    ELSE IF t[1] <= Head(l)[1] THEN <<t>> \o l
    ELSE <<Head(l)>> \o InsertTerm(t, Tail(l))

\* the terms of a linear combination sorted by variable index
RECURSIVE canonical_lincomb(_)
canonical_lincomb(l) ==
    IF l = << >> THEN << >>
    ELSE InsertTerm(Head(l), canonical_lincomb(Tail(l)))

TermLess(a, b) == a[1] < b[1] \/ (a[1] = b[1] /\ a[2] < b[2])

\* lexicographic order on canonical linear combinations
RECURSIVE LinCombLeq(_, _)
LinCombLeq(a, b) ==
    IF a = << >> THEN TRUE
    ELSE IF b = << >> THEN FALSE
    ELSE IF TermLess(Head(a), Head(b)) THEN TRUE
    ELSE IF TermLess(Head(b), Head(a)) THEN FALSE
    ELSE LinCombLeq(Tail(a), Tail(b))

\* a constraint every assignment satisfies: 0 * x == 0
IsTrivial(s) ==
    s.kind = "constraint" /\ s.lin = zero /\ (s.left = zero \/ s.right = zero)

\* the canonical form of a constraint: sorted terms, larger operand first
canonical_constraint(s) ==
    LET l == canonical_lincomb(s.left)
        rr == canonical_lincomb(s.right)
    IN  IF LinCombLeq(rr, l)
        THEN constraint(l, rr, canonical_lincomb(s.lin))
        ELSE constraint(rr, l, canonical_lincomb(s.lin))

canonical_directive(s) ==
    directive(MapSeq(canonical_lincomb, s.inputs), s.outputs)

\* Canonicalizer::fold_statement on a constraint or a directive
canonicalize_simple(s) ==
    IF s.kind = "directive" THEN <<canonical_directive(s)>>
    ELSE IF IsTrivial(s) THEN << >>
    ELSE <<canonical_constraint(s)>>

\* Canonicalizer::fold_statement: Statement -> Vec<Statement>
Canonicalizer_fold_statement(s) ==
    IF s.kind = "block" THEN FlatMap(canonicalize_simple, s.parts)
    ELSE canonicalize_simple(s)

----------------------------------------------------------------------------
(* hash (duplicate.rs l.9-17): the derived Hash of Statement feeds the      *)
(* statement's whole content to a hasher, whose finish() is the Hash.      *)

\* DefaultHasher::new(): the hasher's initial state, HashBits wide
hasher_new == 5381 % (2 ^ HashBits)

\* Hasher::write of one word: mixes the word into the state
hasher_write(h, x) == (h * 33 + x) % (2 ^ HashBits)

RECURSIVE hasher_write_all(_, _)
hasher_write_all(h, ws) ==
    IF ws = << >> THEN h ELSE hasher_write_all(hasher_write(h, Head(ws)), Tail(ws))

\* the words a term, a linear combination (a Vec: length first) feed
TermWords(t) == <<t[1], t[2]>>
LinCombWords(l) == <<Len(l)>> \o FlatMap(TermWords, l)

\* the words a constraint or a directive feeds: discriminant, then the fields
SimpleWords(s) ==
    IF s.kind = "constraint"
    THEN <<0>> \o LinCombWords(s.left) \o LinCombWords(s.right) \o LinCombWords(s.lin)
    ELSE <<1, Len(s.inputs)>> \o FlatMap(LinCombWords, s.inputs)
                \o <<Len(s.outputs)>> \o s.outputs

StatementWords(s) ==
    IF s.kind = "block" THEN <<2, Len(s.parts)>> \o FlatMap(SimpleWords, s.parts)
    ELSE SimpleWords(s)

\* fn hash(s: &Statement<T>) -> Hash
hash(s) == hasher_write_all(hasher_new, StatementWords(s))

----------------------------------------------------------------------------
(* The input programs the model explores *)

\* the constraint of tests::remove_duplicates: (3*_3) * (3*_3) == 1
StmtA == constraint(summand(3, 3), summand(3, 3), one)

\* the second constraint of the tests: (3*_42) * (3*_3) == 0
StmtB == constraint(summand(3, 42), summand(3, 3), zero)

\* StmtB with the operands of the quadratic combination swapped
StmtBSwapped == constraint(summand(3, 3), summand(3, 42), zero)

\* (_3 + 2*_42) * (_3) == 1 + _3
StmtC == constraint(<< <<3, 1>>, <<42, 2>> >>, summand(1, 3), << <<One, 1>>, <<3, 1>> >>)

\* StmtC with its terms written in another order and its operands swapped
StmtCReordered ==
    constraint(summand(1, 3), << <<42, 2>>, <<3, 1>> >>, << <<3, 1>>, <<One, 1>> >>)

\* 0 * (_3) == 0
StmtTrivial == constraint(zero, summand(1, 3), zero)

\* a directive computing _3 from _42 + _3
StmtDirective == directive(<< << <<42, 1>>, <<3, 1>> >> >>, <<3>>)

\* (_42) * (_42) == 0
StmtE == constraint(summand(1, 42), summand(1, 42), zero)

\* a statement the canonicalizer expands into two
StmtBlock == block(<<StmtBSwapped, StmtA>>)

StatementPool ==
    {StmtA, StmtB, StmtBSwapped, StmtC, StmtCReordered, StmtTrivial,
     StmtDirective, StmtBlock, StmtE}

\* statement lists of at most MaxStatements statements
StatementLists == UNION {[1..n -> StatementPool] : n \in 0..MaxStatements}

\* (arguments, returns) of the input programs
Signatures == { << << >>, << >> >>, << <<3, 42>>, <<42>> >> }

----------------------------------------------------------------------------
(* DuplicateOptimizer (duplicate.rs) *)

\* DuplicateOptimizer::new(): an empty `seen`
DuplicateOptimizer_new == {}

\* mutant of fold_module_canonicalize: the statements are not canonicalized
fold_module_canonicalize_skipped(p) ==
    Prog(p.statements, p.arguments, p.returns)

\* mutant of fold_module_canonicalize: the Prog is built without `..p`
fold_module_canonicalize_without_rest(p) ==
    Prog(FlatMap(Canonicalizer_fold_statement, p.statements), << >>, << >>)

\* fold_module, l.39-48: every statement canonicalized, the results
\* concatenated; `..p` keeps the arguments and the returns
fold_module_canonicalize(p) ==
    Prog(FlatMap(Canonicalizer_fold_statement, p.statements), p.arguments, p.returns)

\* mutant of fold_statement: the arms of the match are exchanged
fold_statement_arms_exchanged(seenBefore, s) ==
    LET hashed == hash(s)
    IN  [result |-> IF hashed \in seenBefore THEN <<s>> ELSE << >>,
         seen   |-> seenBefore \cup {hashed}]

\* mutant of fold_statement: the hash is not inserted into `seen`
fold_statement_without_insert(seenBefore, s) ==
    LET hashed == hash(s)
    IN  [result |-> IF hashed \in seenBefore THEN << >> ELSE <<s>>,
         seen   |-> seenBefore]

\* fold_statement, l.53-62: the statements it returns and `seen` afterwards
fold_statement(seenBefore, s) ==
    LET hashed == hash(s)
    IN  [result |-> IF hashed \in seenBefore THEN << >> ELSE <<s>>,
         seen   |-> seenBefore \cup {hashed}]

\* Folder::fold_argument, Folder::fold_variable: not overridden, the identity
fold_argument(a) == a
fold_variable(v) == v

\* ir::folder::fold_module builds the Prog it returns from the folded parts
folder_fold_module_result(p, statements) ==
    Prog(statements, MapSeq(fold_argument, p.arguments), MapSeq(fold_variable, p.returns))

\* the optimizer is not in use (SpecAnalyse)
DupIdle ==
    /\ prog = NoProg /\ input = NoProg /\ run = 0 /\ pc = "idle"
    /\ canon = NoProg /\ idx = 0 /\ out = << >> /\ origin = << >>
    /\ seen = {} /\ result = NoProg /\ first = NoProg

\* optimize, l.31-33, is called on some program: Self::new(), then fold_module
DupInit ==
    /\ prog \in {Prog(s, sig[1], sig[2]) : s \in StatementLists, sig \in Signatures}
    /\ input = prog
    /\ run = 1
    /\ pc = "start"
    /\ canon = NoProg
    /\ idx = 1
    /\ out = << >>
    /\ origin = << >>
    /\ seen = DuplicateOptimizer_new
    /\ result = NoProg
    /\ first = NoProg

\* fold_module, l.37-48: the canonicalized program replaces p
Canonicalize ==
    /\ pc = "start"
    /\ canon' = fold_module_canonicalize(input)
    /\ pc' = "fold"
    /\ UNCHANGED <<prog, input, run, idx, out, origin, seen, result, first>>

\* fold_module, l.50: ir::folder::fold_module hands the next statement to
\* fold_statement and appends what it returns
FoldStatement ==
    /\ pc = "fold"
    /\ idx <= Len(canon.statements)
    /\ LET f == fold_statement(seen, canon.statements[idx])
       IN  /\ out' = out \o f.result
           /\ origin' = origin \o [k \in 1..Len(f.result) |-> idx]
           /\ seen' = f.seen
    /\ idx' = idx + 1
    /\ UNCHANGED <<prog, input, run, pc, canon, result, first>>

\* fold_module, l.50: every statement was folded, the Prog is returned
Return ==
    /\ pc = "fold"
    /\ idx > Len(canon.statements)
    /\ result' = folder_fold_module_result(canon, out)
    /\ first' = IF run = 1 THEN result' ELSE first
    /\ pc' = "done"
    /\ UNCHANGED <<prog, input, run, canon, idx, out, origin, seen>>

\* optimize is called again, on what the first call returned
OptimizeAgain ==
    /\ pc = "done"
    /\ run = 1
    /\ run' = 2
    /\ input' = result
    /\ pc' = "start"
    /\ canon' = NoProg
    /\ idx' = 1
    /\ out' = << >>
    /\ origin' = << >>
    /\ seen' = DuplicateOptimizer_new
    /\ result' = NoProg
    /\ UNCHANGED <<prog, first>>


----------------------------------------------------------------------------
(* static_analysis/mod.rs: values *)

NoValue == [none |-> TRUE]
NoResult == [pending |-> TRUE]

\* Result::Ok, Result::Err
Ok(v) == [ok |-> TRUE, value |-> v]
Err(e) == [ok |-> FALSE, error |-> e]

\* a program is known by the source it came from and the passes applied to
\* it, in order: what a pass computes is not interpreted
Source(id) == [source |-> id, passes |-> << >>]
Apply(pass, v) == [v EXCEPT !.passes = Append(@, pass)]

\* TypedProgram::abi(): a read-only projection of the program it is taken from
Abi(v) == [abi_of |-> v]

\* the errors of a pass: values of the Error type of the pass's module
PassErrors(module) == {[module |-> module, id |-> e] : e \in 1..MaxErrors}

\* what a fallible pass may return on v: Ok(its output) or Err(one of its errors)
Outcomes(pass, module, v) ==
    {Ok(Apply(pass, v))} \cup {Err(e) : e \in PassErrors(module)}

\* impl From<constant_inliner::Error> for Error
From_constant_inliner(e) == [variant |-> "ConstantInliner", inner |-> e]

\* mutant of From_reducer: the error is wrapped in another stage's variant
From_reducer_as_propagation(e) == [variant |-> "Propagation", inner |-> e]

\* impl From<reducer::Error> for Error
From_reducer(e) == [variant |-> "Reducer", inner |-> e]

\* impl From<propagation::Error> for Error
From_propagation(e) == [variant |-> "Propagation", inner |-> e]

\* impl From<zir_propagation::Error> for Error
From_zir_propagation(e) == [variant |-> "ZirPropagation", inner |-> e]

\* impl From<constant_argument_checker::Error> for Error
From_constant_argument_checker(e) == [variant |-> "NonConstantArgument", inner |-> e]

\* impl From<unconstrained_vars::Error> for Error
From_unconstrained_vars(e) == [variant |-> "UnconstrainedVariable", inner |-> e]

\* Error::from: the impl is selected by the type of the error
Error_from(e) ==
    CASE e.module = "constant_inliner" -> From_constant_inliner(e)
      [] e.module = "reducer" -> From_reducer(e)
      [] e.module = "propagation" -> From_propagation(e)
      [] e.module = "zir_propagation" -> From_zir_propagation(e)
      [] e.module = "constant_argument_checker" -> From_constant_argument_checker(e)
      [] e.module = "unconstrained_vars" -> From_unconstrained_vars(e)

\* res.map_err(Error::from)
map_err_from(res) == IF res.ok THEN res ELSE Err(Error_from(res.error))

----------------------------------------------------------------------------
(* TypedProgram::analyse (mod.rs l.102-161): one action per stage *)

\* the typed programs analyse is called on
Sources == {Source(id) : id \in 1..MaxSources}

AnaIdle ==
    /\ apc = "idle" /\ isolate_branches = FALSE /\ source = NoValue
    /\ r = NoValue /\ zir = NoValue /\ abi = NoValue
    /\ ret = NoResult /\ log = << >>

\* analyse is called on some typed program with some configuration
AnaInit ==
    /\ apc = "inline"
    /\ isolate_branches \in BOOLEAN
    /\ source \in Sources
    /\ r = NoValue
    /\ zir = NoValue
    /\ abi = NoValue
    /\ ret = NoResult
    /\ log = << >>

\* l.104-107: ConstantInliner::inline(self).map_err(Error::from)?
InlineConstants ==
    /\ apc = "inline"
    /\ log' = Append(log, "Inline constants")
    /\ \E o \in Outcomes("ConstantInliner", "constant_inliner", source) :
         LET res == map_err_from(o)
         IN  IF res.ok
             THEN r' = res.value /\ apc' = "isolate" /\ ret' = ret
             ELSE r' = r /\ apc' = "returned" /\ ret' = res
    /\ UNCHANGED <<isolate_branches, source, zir, abi>>

\* mutant of IsolateBranches: the configuration is not consulted
IsolateBranchesAlways ==
    /\ apc = "isolate"
    /\ log' = Append(log, "Isolate branches")
    /\ r' = Apply("Isolator", r)
    /\ apc' = "reduce"
    /\ UNCHANGED <<isolate_branches, source, zir, abi, ret>>

\* l.109-118: Isolator::isolate(r) if config.isolate_branches, else r as it is
IsolateBranches ==
    /\ apc = "isolate"
    /\ IF isolate_branches
       THEN /\ log' = Append(log, "Isolate branches")
            /\ r' = Apply("Isolator", r)
       ELSE /\ log' = Append(log, "Branch isolation skipped")
            /\ r' = r
    /\ apc' = "reduce"
    /\ UNCHANGED <<isolate_branches, source, zir, abi, ret>>

\* mutant of ReduceProgram: an error is dropped and the pipeline goes on
ReduceProgramIgnoringError ==
    /\ apc = "reduce"
    /\ log' = Append(log, "Reduce program")
    /\ \E o \in Outcomes("reduce_program", "reducer", r) :
         r' = IF o.ok THEN o.value ELSE r
    /\ apc' = "abi"
    /\ UNCHANGED <<isolate_branches, source, zir, abi, ret>>

\* l.120-123: reduce_program(r).map_err(Error::from)?
ReduceProgram ==
    /\ apc = "reduce"
    /\ log' = Append(log, "Reduce program")
    /\ \E o \in Outcomes("reduce_program", "reducer", r) :
         LET res == map_err_from(o)
         IN  IF res.ok
             THEN r' = res.value /\ apc' = "abi" /\ ret' = ret
             ELSE r' = r /\ apc' = "returned" /\ ret' = res
    /\ UNCHANGED <<isolate_branches, source, zir, abi>>

\* l.125-127: let abi = r.abi()
GenerateAbi ==
    /\ apc = "abi"
    /\ log' = Append(log, "Generate abi")
    /\ abi' = Abi(r)
    /\ apc' = "propagate"
    /\ UNCHANGED <<isolate_branches, source, r, zir, ret>>

\* l.129-132: Propagator::propagate(r).map_err(Error::from)?
Propagate ==
    /\ apc = "propagate"
    /\ log' = Append(log, "Propagate")
    /\ \E o \in Outcomes("Propagator", "propagation", r) :
         LET res == map_err_from(o)
         IN  IF res.ok
             THEN r' = res.value /\ apc' = "remove_writes" /\ ret' = ret
             ELSE r' = r /\ apc' = "returned" /\ ret' = res
    /\ UNCHANGED <<isolate_branches, source, zir, abi>>

\* l.134-137: VariableWriteRemover::apply(r)
RemoveVariableIndex ==
    /\ apc = "remove_writes"
    /\ log' = Append(log, "Remove variable index")
    /\ r' = Apply("VariableWriteRemover", r)
    /\ apc' = "check_arguments"
    /\ UNCHANGED <<isolate_branches, source, zir, abi, ret>>

\* l.139-142: ConstantArgumentChecker::check(r).map_err(Error::from)?
DetectNonConstantArguments ==
    /\ apc = "check_arguments"
    /\ log' = Append(log, "Detect non constant arguments")
    /\ \E o \in Outcomes("ConstantArgumentChecker", "constant_argument_checker", r) :
         LET res == map_err_from(o)
         IN  IF res.ok
             THEN r' = res.value /\ apc' = "flatten" /\ ret' = ret
             ELSE r' = r /\ apc' = "returned" /\ ret' = res
    /\ UNCHANGED <<isolate_branches, source, zir, abi>>

\* l.144-147: let zir = Flattener::flatten(r)
ConvertToZir ==
    /\ apc = "flatten"
    /\ log' = Append(log, "Convert to zir")
    /\ zir' = Apply("Flattener", r)
    /\ apc' = "zir_propagate"
    /\ UNCHANGED <<isolate_branches, source, r, abi, ret>>

\* l.149-152: ZirPropagator::propagate(zir).map_err(Error::from)?
PropagateZir ==
    /\ apc = "zir_propagate"
    /\ log' = Append(log, "Apply propagation in zir")
    /\ \E o \in Outcomes("ZirPropagator", "zir_propagation", zir) :
         LET res == map_err_from(o)
         IN  IF res.ok
             THEN zir' = res.value /\ apc' = "optimize_uints" /\ ret' = ret
             ELSE zir' = zir /\ apc' = "returned" /\ ret' = res
    /\ UNCHANGED <<isolate_branches, source, r, abi>>

\* l.154-159: UintOptimizer::optimize(zir), then Ok((zir, abi))
OptimizeUints ==
    /\ apc = "optimize_uints"
    /\ log' = Append(log, "Optimize uints")
    /\ zir' = Apply("UintOptimizer", zir)
    /\ ret' = Ok(<<zir', abi>>)
    /\ apc' = "returned"
    /\ UNCHANGED <<isolate_branches, source, r, abi>>

----------------------------------------------------------------------------
(* <Prog<T> as Analyse>::analyse (mod.rs l.163-171) *)

\* the IR programs analyse is called on
IrPrograms ==
    {Prog(s, sig[1], sig[2]) :
        s \in UNION {[1..n -> StatementPool] : n \in 0..1}, sig \in Signatures}

\* what UnconstrainedVariableDetector::detect(&self) may return
DetectOutcomes == {Ok(<< >>)} \cup {Err(e) : e \in PassErrors("unconstrained_vars")}

IrIdle == ipc = "idle" /\ iprog = NoProg /\ iret = NoResult

IrInit ==
    /\ ipc = "call"
    /\ iprog \in IrPrograms
    /\ iret = NoResult

\* mutant of IrAnalyse: the statements are dropped from the returned program
IrAnalyseRewriting ==
    /\ ipc = "call"
    /\ \E o \in DetectOutcomes :
         LET res == map_err_from(o)
         IN  iret' = IF res.ok THEN Ok(Prog(<< >>, iprog.arguments, iprog.returns))
                     ELSE res
    /\ ipc' = "returned"
    /\ UNCHANGED iprog

\* l.166-170: detect(&self).map_err(Error::from)?; Ok(self)
IrAnalyse ==
    /\ ipc = "call"
    /\ \E o \in DetectOutcomes :
         LET res == map_err_from(o)
         IN  iret' = IF res.ok THEN Ok(iprog) ELSE res
    /\ ipc' = "returned"
    /\ UNCHANGED iprog

----------------------------------------------------------------------------
(* Specifications *)

\* the duplicate optimizer alone
InitDup == DupInit /\ AnaIdle /\ IrIdle
NextDup ==
    \/ Canonicalize /\ UNCHANGED <<anaVars, irVars>>
    \/ FoldStatement /\ UNCHANGED <<anaVars, irVars>>
    \/ Return /\ UNCHANGED <<anaVars, irVars>>
    \/ OptimizeAgain /\ UNCHANGED <<anaVars, irVars>>
SpecDup == InitDup /\ [][NextDup]_vars

\* the two analyse entry points
InitAnalyse == DupIdle /\ AnaInit /\ IrInit
NextAnalyse ==
    \/ InlineConstants /\ UNCHANGED <<dupVars, irVars>>
    \/ IsolateBranches /\ UNCHANGED <<dupVars, irVars>>
    \/ ReduceProgram /\ UNCHANGED <<dupVars, irVars>>
    \/ GenerateAbi /\ UNCHANGED <<dupVars, irVars>>
    \/ Propagate /\ UNCHANGED <<dupVars, irVars>>
    \/ RemoveVariableIndex /\ UNCHANGED <<dupVars, irVars>>
    \/ DetectNonConstantArguments /\ UNCHANGED <<dupVars, irVars>>
    \/ ConvertToZir /\ UNCHANGED <<dupVars, irVars>>
    \/ PropagateZir /\ UNCHANGED <<dupVars, irVars>>
    \/ OptimizeUints /\ UNCHANGED <<dupVars, irVars>>
    \/ IrAnalyse /\ UNCHANGED <<dupVars, anaVars>>
SpecAnalyse == InitAnalyse /\ [][NextAnalyse]_vars

----------------------------------------------------------------------------
(* Properties of the duplicate optimizer *)

\* s without its last element
Front(s) == SubSeq(s, 1, Len(s) - 1)

\* the first occurrence of each distinct value of s, in the order of s
RECURSIVE FirstOccurrences(_)
FirstOccurrences(s) ==
    IF s = << >> THEN << >>
    ELSE IF s[Len(s)] \in SeqToSet(Front(s)) THEN FirstOccurrences(Front(s))
    ELSE Append(FirstOccurrences(Front(s)), s[Len(s)])

\* no value occurs twice in s
Distinct(s) == \A i, j \in 1..Len(s) : i # j => s[i] # s[j]

\* the call of optimize under way has returned
Returned == pc = "done"

\* C1: when optimize returns, its statements are exactly the first
\* occurrence of each distinct canonical statement, in their original order.
C1_FirstOccurrencesKept ==
    Returned => result.statements = FirstOccurrences(canon.statements)

\* C2: optimize applied to the result of optimize returns that same program:
\* same statements in the same order, same arguments, same returns.
C2_Idempotent ==
    (Returned /\ run = 2) => result = first

\* a second call returned, and the first call had removed statements
C2_Witness ==
    /\ Returned /\ run = 2
    /\ Len(first.statements) >= 2
    /\ Len(first.statements) < Len(prog.statements)

\* the statements emitted so far are pairwise distinct, each has its hash in
\* `seen`, and a returned statement list has no two equal statements
C3_Emitted ==
    /\ Distinct(out)
    /\ \A k \in 1..Len(out) : hash(out[k]) \in seen
    /\ result # NoProg => Distinct(result.statements)

\* the steps the pass under way still has to take: the canonicalizing step,
\* one fold_statement per canonical statement, the return
StepsLeft ==
    CASE pc = "start" ->
            Len(FlatMap(Canonicalizer_fold_statement, input.statements)) + 2
      [] pc = "fold" -> Len(canon.statements) - idx + 2
      [] OTHER -> 0

\* C3: at every point of the pass the emitted statements are pairwise
\* distinct with their hashes recorded in `seen`, and the returned list has
\* no two equal statements; the pass finishes: until it has returned it can
\* always take a step, and every step leaves fewer steps to take.
C3_NoDuplicatesAndFinishes ==
    /\ [](C3_Emitted /\ StepsLeft >= 0)
    /\ [](pc # "done" => ENABLED NextDup)
    /\ [][pc # "done" => (StepsLeft' < StepsLeft /\ (pc' = "done") = (StepsLeft' = 0))]_vars

\* the pass returned after dropping a repeated statement
C3_Witness ==
    /\ Returned /\ run = 1
    /\ Len(result.statements) >= 2
    /\ Len(result.statements) < Len(canon.statements)

\* C4: a statement is dropped only when an equal statement was emitted
\* before it, so every distinct canonical statement is in the output.
C4_DroppedOnlyIfEqualEmitted ==
    /\ pc \in {"fold", "done"} =>
         \A i \in 1..(idx - 1) :
            \E k \in 1..Len(out) : origin[k] <= i /\ out[k] = canon.statements[i]
    /\ Returned => SeqToSet(canon.statements) \subseteq SeqToSet(result.statements)

\* C5: the arguments and the returns of the program pass through unchanged,
\* through the canonicalizing step and in the returned program.
C5_ArgumentsAndReturnsUnchanged ==
    /\ canon # NoProg =>
         canon.arguments = input.arguments /\ canon.returns = input.returns
    /\ result # NoProg =>
         result.arguments = input.arguments /\ result.returns = input.returns
    /\ first # NoProg =>
         first.arguments = prog.arguments /\ first.returns = prog.returns

\* optimize returned fewer statements for a program with arguments and returns
C5_Witness ==
    /\ Returned /\ run = 1
    /\ prog.arguments # << >> /\ prog.returns # << >>
    /\ result.statements # prog.statements
    /\ result.statements # << >>

\* the set of terms of a linear combination
Terms(l) == SeqToSet(l)

\* two constraints over the same terms: each combination has the same terms
\* in some order, the operands of the product possibly swapped
Equivalent(s, t) ==
    /\ s.kind = "constraint" /\ t.kind = "constraint"
    /\ Terms(s.lin) = Terms(t.lin)
    /\ \/ Terms(s.left) = Terms(t.left) /\ Terms(s.right) = Terms(t.right)
       \/ Terms(s.left) = Terms(t.right) /\ Terms(s.right) = Terms(t.left)

\* where in the canonicalized list the statements of input statement i start
CanonOffset(i) ==
    Len(FlatMap(Canonicalizer_fold_statement, SubSeq(input.statements, 1, i - 1)))

----------------------------------------------------------------------------
(* Properties of the analyse entry points *)

IsOk(x) == x # NoResult /\ x.ok
IsErr(x) == x # NoResult /\ ~x.ok

IsPrefix(a, b) == Len(a) <= Len(b) /\ a = SubSeq(b, 1, Len(a))

\* the passes that rewrite the program, in the order of the pipeline
PassOrder(isolate) ==
    <<"ConstantInliner">> \o (IF isolate THEN <<"Isolator">> ELSE << >>)
        \o <<"reduce_program", "Propagator", "VariableWriteRemover",
             "ConstantArgumentChecker", "Flattener", "ZirPropagator", "UintOptimizer">>

\* the passes up to the Reducer
ReducedOrder(isolate) ==
    <<"ConstantInliner">> \o (IF isolate THEN <<"Isolator">> ELSE << >>)
        \o <<"reduce_program">>

\* the messages of the stages, in the order of the pipeline
LogOrder(isolate) ==
    <<"Inline constants",
      IF isolate THEN "Isolate branches" ELSE "Branch isolation skipped",
      "Reduce program", "Generate abi", "Propagate", "Remove variable index",
      "Detect non constant arguments", "Convert to zir",
      "Apply propagation in zir", "Optimize uints">>

\* the source program after the given passes
After(passes) == [source |-> source.source, passes |-> passes]

\* C7: the passes run in the fixed order, each on the output of the one
\* before it, none twice; the Branch Isolator runs iff isolate_branches;
\* the ABI is that of the Reducer's output and exists before the Propagator
\* has run; Ok carries the output of the whole sequence.
C7_PassOrder ==
    /\ IsPrefix(log, LogOrder(isolate_branches))
    /\ r # NoValue =>
         /\ r.source = source.source
         /\ IsPrefix(r.passes, PassOrder(isolate_branches))
         /\ ("Isolator" \in SeqToSet(r.passes)) =
                (isolate_branches /\ Len(log) >= 2)
         /\ "Propagator" \in SeqToSet(r.passes) => abi # NoValue
    /\ zir # NoValue =>
         /\ zir.source = source.source
         /\ IsPrefix(zir.passes, PassOrder(isolate_branches))
         /\ IsPrefix(r.passes \o <<"Flattener">>, zir.passes)
    /\ abi # NoValue => abi = Abi(After(ReducedOrder(isolate_branches)))
    /\ IsOk(ret) =>
         ret.value = <<After(PassOrder(isolate_branches)),
                       Abi(After(ReducedOrder(isolate_branches)))>>

\* analyse returned Ok with branch isolation switched off
C7_Witness ==
    IsOk(ret) /\ ~isolate_branches /\ log = LogOrder(FALSE)

\* the pass a stage runs on the program, by the stage's message
StagePass(m) ==
    CASE m = "Inline constants" -> <<"ConstantInliner">>
      [] m = "Isolate branches" -> <<"Isolator">>
      [] m = "Reduce program" -> <<"reduce_program">>
      [] m = "Propagate" -> <<"Propagator">>
      [] m = "Remove variable index" -> <<"VariableWriteRemover">>
      [] m = "Detect non constant arguments" -> <<"ConstantArgumentChecker">>
      [] m = "Convert to zir" -> <<"Flattener">>
      [] m = "Apply propagation in zir" -> <<"ZirPropagator">>
      [] m = "Optimize uints" -> <<"UintOptimizer">>
      [] OTHER -> << >>

\* the program as transformed so far
Current == IF zir # NoValue THEN zir ELSE IF r # NoValue THEN r ELSE source

\* some stage of TypedProgram::analyse can run
StageEnabled ==
    ENABLED (InlineConstants \/ IsolateBranches \/ ReduceProgram \/ GenerateAbi
             \/ Propagate \/ RemoveVariableIndex \/ DetectNonConstantArguments
             \/ ConvertToZir \/ PropagateZir \/ OptimizeUints)

\* C8: once a pass fails analyse has returned Err, which carries no program
\* and no ABI, the failed pass and the later ones were not applied, and no
\* stage runs any more; Ok is returned only with every stage's pass applied;
\* no stage runs twice.
C8_FailFast ==
    /\ Distinct(log)
    /\ IsErr(ret) =>
         /\ apc = "returned"
         /\ DOMAIN ret = {"ok", "error"}
         /\ log # << >>
         /\ Current.passes = FlatMap(StagePass, Front(log))
    /\ IsOk(ret) =>
         /\ apc = "returned"
         /\ Len(log) = Len(LogOrder(isolate_branches))
         /\ ret.value[1].passes = FlatMap(StagePass, log)
    /\ apc = "returned" => (ret # NoResult /\ ~StageEnabled)
    /\ ret # NoResult => apc = "returned"

\* a pass failed after the ABI had been generated
C8_Witness == IsErr(ret) /\ abi # NoValue /\ zir # NoValue

\* the Error variant of the pass a stage runs, by the stage's message
StageVariant(m) ==
    CASE m = "Inline constants" -> "ConstantInliner"
      [] m = "Reduce program" -> "Reducer"
      [] m = "Propagate" -> "Propagation"
      [] m = "Detect non constant arguments" -> "NonConstantArgument"
      [] m = "Apply propagation in zir" -> "ZirPropagation"
      [] OTHER -> "none"

\* the module whose Error type each variant wraps
VariantModule(v) ==
    CASE v = "ConstantInliner" -> "constant_inliner"
      [] v = "Reducer" -> "reducer"
      [] v = "Propagation" -> "propagation"
      [] v = "NonConstantArgument" -> "constant_argument_checker"
      [] v = "ZirPropagation" -> "zir_propagation"
      [] v = "UnconstrainedVariable" -> "unconstrained_vars"
      [] OTHER -> "none"

\* C9: the error returned is the error of the pass that failed, which is
\* the last stage entered, wrapped in the variant of that pass and of no
\* other; the detector's error is wrapped in UnconstrainedVariable.
C9_ErrorNamesItsStage ==
    /\ IsErr(ret) =>
         /\ ret.error.variant = StageVariant(log[Len(log)])
         /\ ret.error.inner \in PassErrors(VariantModule(ret.error.variant))
    /\ IsErr(iret) =>
         /\ iret.error.variant = "UnconstrainedVariable"
         /\ iret.error.inner \in PassErrors("unconstrained_vars")

\* the Reducer failed
C9_Witness ==
    IsErr(ret) /\ log[Len(log)] = "Reduce program" /\ ret.error.variant = "Reducer"

\* C10: <Prog as Analyse>::analyse returns Ok with exactly the program it
\* was given when detection succeeds, and Err(UnconstrainedVariable) with no
\* program when it fails.
C10_DetectorReadOnly ==
    /\ IsOk(iret) => (DOMAIN iret = {"ok", "value"} /\ iret.value = iprog)
    /\ IsErr(iret) =>
         /\ DOMAIN iret = {"ok", "error"}
         /\ DOMAIN iret.error = {"variant", "inner"}
         /\ iret.error.variant = "UnconstrainedVariable"
    /\ ipc = "returned" => iret # NoResult

\* detection succeeded on a program with statements, arguments and returns
C10_Witness ==
    /\ IsOk(iret)
    /\ iprog.statements # << >> /\ iprog.arguments # << >> /\ iprog.returns # << >>

====
